---- MODULE Spec2Model ----
(***************************************************************************)
(* MaterialXCore/Geom.h: GeomElement, GeomInfo, GeomAttr, Collection,      *)
(* CollectionAdd, CollectionRemove and geomStringsMatch.                   *)
(*                                                                         *)
(* One parent element (a GeomInfo or a Collection) with its ordered child  *)
(* sequence is the state of specification Spec; the geom-string matcher is *)
(* a pure function and is exercised by specification SpecMatch.            *)
(*                                                                         *)
(* Geom.h delegates to Element (addChild, getChildOfType,                  *)
(* getChildrenOfType, removeChildOfType, setAttribute, getAttribute) and   *)
(* to ValueElement (setValue, getValue); their bodies, and the body of     *)
(* geomStringsMatch, are not part of Geom.h and are modelled from the      *)
(* design document (sections 4.1, 4.2, 4.3).                               *)
(***************************************************************************)
EXTENDS Integers, Sequences, FiniteSets, TLC

VARIABLES
    parentClass,  \* the class of the parent element: a GeomInfo or a Collection
    children,     \* the parent's ordered child sequence
    last,         \* the most recent call made on the parent and its outcome
    written,      \* history: child name -> the <<value, type>> last set on it
    geom1, geom2, \* the two arguments of geomStringsMatch
    matchState,   \* "idle" before geomStringsMatch has returned, "done" after
    matchResult   \* what geomStringsMatch returned

vars == <<parentClass, children, last, written, geom1, geom2, matchState,
          matchResult>>
treeVars == <<parentClass, children, last, written>>
matchVars == <<geom1, geom2, matchState, matchResult>>

----------------------------------------------------------------------------
(* Bounds of the model *)

\* the most children the parent element is given
MaxChildren == 3
\* the longest geom string handed to geomStringsMatch
MaxGeomLen == 3

----------------------------------------------------------------------------
(* Program constants *)

EMPTY_STRING == ""
UNIVERSAL_GEOM_NAME == <<"*">>
GEOM_ATTRIBUTE == "geom"
COLLECTION_ATTRIBUTE == "collection"
TYPE_ATTRIBUTE == "type"
VALUE_ATTRIBUTE == "value"
GeomInfo_CATEGORY == "geominfo"
GeomAttr_CATEGORY == "geomattr"
Collection_CATEGORY == "collection"
CollectionAdd_CATEGORY == "collectionadd"
CollectionRemove_CATEGORY == "collectionremove"

\* a null shared pointer; a non-null one is the child's position in the
\* parent's child sequence
NullPtr == 0

----------------------------------------------------------------------------
(* Inputs the operations are called with *)

\* explicit child names: a plain one, and one that looks like the name
\* synthesized for the first GeomAttr / CollectionAdd
GeomInfoNames == {"rule1", "geomattr1"}
CollectionNames == {"rule1", "collectionadd1"}
\* the name argument of a call: an explicit name, or none
NameArgs == (IF parentClass = "geominfo" THEN GeomInfoNames ELSE CollectionNames)
                \cup {EMPTY_STRING}

\* a typed value is its type with an integer, a boolean being carried as 0/1
NoValue == [t |-> "", v |-> 0]
\* the (value, type) arguments of setGeomAttrValue: the type argument is
\* absent, or an explicit type string
ValueArgs == {<<[t |-> "integer", v |-> -12], EMPTY_STRING>>,
              <<[t |-> "boolean", v |-> 1], EMPTY_STRING>>,
              <<[t |-> "integer", v |-> -12], "float">>}
\* the T of getValue<T>
RequestedTypes == {"integer", "boolean"}
\* strings given to setGeom / setCollection
GeomArgs == {"/robot1", "/robot1/arm"}
CollectionArgs == {"coll1"}

----------------------------------------------------------------------------
(* Element: generic typed containment (design document 4.1) *)

\* a freshly constructed element: no attributes, no value
newElement(category, name) ==
    [name |-> name, category |-> category, attrs |-> <<>>]

\* Element::getChild: the child with the given name, or null
getChild(elems, name) ==
    IF \E i \in 1..Len(elems) : elems[i].name = name
    THEN CHOOSE i \in 1..Len(elems) : elems[i].name = name
    ELSE NullPtr

\* probing category1, category2, ... for the first unused child name
RECURSIVE probeChildName(_, _, _)
probeChildName(elems, category, n) ==
    IF getChild(elems, category \o ToString(n)) # NullPtr
    THEN probeChildName(elems, category, n + 1)
    ELSE category \o ToString(n)

createValidChildName(elems, category) == probeChildName(elems, category, 1)

\* Element::addChild<T>: the result is the error raised (if any), the child
\* sequence afterwards and the pointer returned
addChild(elems, category, name) ==
    LET childName == IF name = EMPTY_STRING
                     THEN createValidChildName(elems, category)
                     ELSE name
    IN  IF getChild(elems, childName) # NullPtr
        THEN [err |-> "DuplicateName", elems |-> elems, ptr |-> NullPtr]
        ELSE [err |-> "none",
              elems |-> Append(elems, newElement(category, childName)),
              ptr |-> Len(elems) + 1]

\* Element::getChildOfType<T>
getChildOfType(elems, category, name) ==
    LET i == getChild(elems, name)
    IN  IF i # NullPtr /\ elems[i].category = category THEN i ELSE NullPtr

\* Element::getChildrenOfType<T>: pointers to the children of variant T, in
\* child-sequence order
RECURSIVE childrenOfTypeFrom(_, _, _)
childrenOfTypeFrom(elems, category, i) ==
    IF i > Len(elems) THEN <<>>
    ELSE IF elems[i].category = category
         THEN <<i>> \o childrenOfTypeFrom(elems, category, i + 1)
         ELSE childrenOfTypeFrom(elems, category, i + 1)

getChildrenOfType(elems, category) == childrenOfTypeFrom(elems, category, 1)

\* Element::removeChild: erase the named child, keeping the others in order
removeChild(elems, name) ==
    LET i == getChild(elems, name)
    IN  IF i = NullPtr THEN elems
        ELSE SubSeq(elems, 1, i - 1) \o SubSeq(elems, i + 1, Len(elems))

\* Element::removeChildOfType<T>
removeChildOfType(elems, category, name) ==
    IF getChildOfType(elems, category, name) # NullPtr
    THEN removeChild(elems, name)
    ELSE elems

\* Element::setAttribute / getAttribute on one element
setAttribute(elem, attrib, value) ==
    [elem EXCEPT !.attrs =
        [a \in (DOMAIN elem.attrs) \cup {attrib} |->
            IF a = attrib THEN value ELSE elem.attrs[a]]]

hasAttribute(elem, attrib) == attrib \in DOMAIN elem.attrs

getAttribute(elem, attrib) ==
    IF hasAttribute(elem, attrib) THEN elem.attrs[attrib] ELSE EMPTY_STRING

----------------------------------------------------------------------------
(* ValueElement: generic typed value behind a string (design document 4.2) *)

DigitChars == <<"0", "1", "2", "3", "4", "5", "6", "7", "8", "9">>

\* the decimal digits of a natural number, most significant first
RECURSIVE natToChars(_)
natToChars(n) ==
    IF n < 10 THEN <<DigitChars[n + 1]>>
    ELSE natToChars(n \div 10) \o <<DigitChars[(n % 10) + 1]>>

isDigit(c) == \E d \in 1..10 : DigitChars[d] = c
digitValue(c) == (CHOOSE d \in 1..10 : DigitChars[d] = c) - 1

\* the natural number a sequence of digits denotes
RECURSIVE charsToNat(_)
charsToNat(str) ==
    IF Len(str) = 0 THEN 0
    ELSE 10 * charsToNat(SubSeq(str, 1, Len(str) - 1)) + digitValue(str[Len(str)])

TrueChars == <<"t", "r", "u", "e">>
FalseChars == <<"f", "a", "l", "s", "e">>

\* the type string of a value's static type
getTypeString(value) == value.t

\* toValueString: a typed value as its string form
toValueString(value) ==
    IF value.t = "boolean"
    THEN (IF value.v # 0 THEN TrueChars ELSE FalseChars)
    ELSE IF value.v < 0 THEN <<"-">> \o natToChars(0 - value.v)
         ELSE natToChars(value.v)

\* whether a string is the well-formed string form of a value of the type
isValueString(str, type) ==
    IF type = "boolean" THEN str \in {TrueChars, FalseChars}
    ELSE LET digits == IF Len(str) > 0 /\ str[1] = "-" THEN Tail(str) ELSE str
         IN  Len(digits) > 0 /\ \A i \in 1..Len(digits) : isDigit(digits[i])

\* fromValueString: the value of the given type a well-formed string denotes
fromValueString(str, type) ==
    IF type = "boolean"
    THEN [t |-> type, v |-> IF str = TrueChars THEN 1 ELSE 0]
    ELSE IF str[1] = "-" THEN [t |-> type, v |-> 0 - charsToNat(Tail(str))]
         ELSE [t |-> type, v |-> charsToNat(str)]

\* ValueElement::setValue<T>(value, type): the type string is the given one
\* when non-empty and that of T otherwise; both attributes are written
setValue(elem, value, type) ==
    LET typed == setAttribute(elem, TYPE_ATTRIBUTE,
                     IF type # EMPTY_STRING THEN type ELSE getTypeString(value))
    IN  setAttribute(typed, VALUE_ATTRIBUTE, toValueString(value))

\* ValueElement::getValue<T>: the error raised (if any) and the value read
getValue(elem, type) ==
    IF ~hasAttribute(elem, VALUE_ATTRIBUTE)
    THEN [err |-> "Unset", value |-> NoValue]
    ELSE IF getAttribute(elem, TYPE_ATTRIBUTE) # type
    THEN [err |-> "TypeMismatch", value |-> NoValue]
    ELSE IF ~isValueString(elem.attrs[VALUE_ATTRIBUTE], type)
    THEN [err |-> "ParseError", value |-> NoValue]
    ELSE [err |-> "none",
          value |-> fromValueString(elem.attrs[VALUE_ATTRIBUTE], type)]

----------------------------------------------------------------------------
(* GeomElement (Geom.h 39-85) *)

\* a variant of setGeom that writes the collection attribute
setGeomWrongAttribute(elem, name) == setAttribute(elem, COLLECTION_ATTRIBUTE, name)

setGeom(elem, name) == setAttribute(elem, GEOM_ATTRIBUTE, name)
getGeom(elem) == getAttribute(elem, GEOM_ATTRIBUTE)
setCollection(elem, name) == setAttribute(elem, COLLECTION_ATTRIBUTE, name)
getCollection(elem) == getAttribute(elem, COLLECTION_ATTRIBUTE)

----------------------------------------------------------------------------
(* GeomInfo (Geom.h 89-139, 268-277) *)

\* a variant of addGeomAttr that names an unnamed GeomAttr itself, always
\* with the same name
addGeomAttrFixedName(elems, name) ==
    addChild(elems, GeomAttr_CATEGORY,
             IF name = EMPTY_STRING THEN GeomAttr_CATEGORY \o "1" ELSE name)

addGeomAttr(elems, name) == addChild(elems, GeomAttr_CATEGORY, name)
getGeomAttr(elems, name) == getChildOfType(elems, GeomAttr_CATEGORY, name)
getGeomAttrs(elems) == getChildrenOfType(elems, GeomAttr_CATEGORY)
removeGeomAttr(elems, name) == removeChildOfType(elems, GeomAttr_CATEGORY, name)

\* a variant of setGeomAttrValue that adds the GeomAttr without looking it
\* up first
setGeomAttrValueAlwaysAdd(elems, name, value, type) ==
    LET added == addGeomAttr(elems, name)
    IN  IF added.err # "none"
        THEN [err |-> added.err, elems |-> elems, ptr |-> NullPtr]
        ELSE [err |-> "none",
              elems |-> [added.elems EXCEPT ![added.ptr] =
                            setValue(added.elems[added.ptr], value, type)],
              ptr |-> added.ptr]

\* a variant of setGeomAttrValue that sets the value of a GeomAttr it has
\* created and leaves an existing one as it is
setGeomAttrValueKeepFirst(elems, name, value, type) ==
    LET found == getChildOfType(elems, GeomAttr_CATEGORY, name)
        added == addGeomAttr(elems, name)
    IN  IF found # NullPtr
        THEN [err |-> "none", elems |-> elems, ptr |-> found]
        ELSE IF added.err # "none"
        THEN [err |-> added.err, elems |-> elems, ptr |-> NullPtr]
        ELSE [err |-> "none",
              elems |-> [added.elems EXCEPT ![added.ptr] =
                            setValue(added.elems[added.ptr], value, type)],
              ptr |-> added.ptr]

\* a variant of setGeomAttrValue that does not pass the type argument on
setGeomAttrValueNoType(elems, name, value, type) ==
    LET found == getChildOfType(elems, GeomAttr_CATEGORY, name)
        added == IF found = NullPtr
                 THEN addGeomAttr(elems, name)
                 ELSE [err |-> "none", elems |-> elems, ptr |-> found]
    IN  IF added.err # "none"
        THEN [err |-> added.err, elems |-> elems, ptr |-> NullPtr]
        ELSE [err |-> "none",
              elems |-> [added.elems EXCEPT ![added.ptr] =
                            setValue(added.elems[added.ptr], value, EMPTY_STRING)],
              ptr |-> added.ptr]

\* a variant of setGeomAttrValue that replaces an existing GeomAttr by a new
\* one at the end of the child sequence
setGeomAttrValueMoveToEnd(elems, name, value, type) ==
    LET found == getChildOfType(elems, GeomAttr_CATEGORY, name)
        added == IF found = NullPtr
                 THEN addGeomAttr(elems, name)
                 ELSE addGeomAttr(removeGeomAttr(elems, name), name)
    IN  IF added.err # "none"
        THEN [err |-> added.err, elems |-> elems, ptr |-> NullPtr]
        ELSE [err |-> "none",
              elems |-> [added.elems EXCEPT ![added.ptr] =
                            setValue(added.elems[added.ptr], value, type)],
              ptr |-> added.ptr]

\* a variant of setGeomAttrValue that looks the child up by name alone and
\* sets the value of whatever child holds the name
setGeomAttrValueAnyType(elems, name, value, type) ==
    LET found == getChild(elems, name)
        added == IF found = NullPtr
                 THEN addGeomAttr(elems, name)
                 ELSE [err |-> "none", elems |-> elems, ptr |-> found]
    IN  IF added.err # "none"
        THEN [err |-> added.err, elems |-> elems, ptr |-> NullPtr]
        ELSE [err |-> "none",
              elems |-> [added.elems EXCEPT ![added.ptr] =
                            setValue(added.elems[added.ptr], value, type)],
              ptr |-> added.ptr]

\* look the GeomAttr up, add it when there is none (an error of the add
\* propagates before any value is written), set its value, return it
setGeomAttrValue(elems, name, value, type) ==
    LET found == getChildOfType(elems, GeomAttr_CATEGORY, name)
        added == IF found = NullPtr
                 THEN addGeomAttr(elems, name)
                 ELSE [err |-> "none", elems |-> elems, ptr |-> found]
    IN  IF added.err # "none"
        THEN [err |-> added.err, elems |-> elems, ptr |-> NullPtr]
        ELSE [err |-> "none",
              elems |-> [added.elems EXCEPT ![added.ptr] =
                            setValue(added.elems[added.ptr], value, type)],
              ptr |-> added.ptr]

----------------------------------------------------------------------------
(* Collection (Geom.h 160-236) *)

\* a variant of addCollectionAdd that renames on a conflict instead of
\* failing
addCollectionAddRenaming(elems, name) ==
    IF getChild(elems, name) # NullPtr
    THEN addChild(elems, CollectionAdd_CATEGORY, EMPTY_STRING)
    ELSE addChild(elems, CollectionAdd_CATEGORY, name)

addCollectionAdd(elems, name) == addChild(elems, CollectionAdd_CATEGORY, name)
\* a variant of getCollectionAdd that returns the named child whatever its
\* variant
getCollectionAddAnyType(elems, name) == getChild(elems, name)

getCollectionAdd(elems, name) == getChildOfType(elems, CollectionAdd_CATEGORY, name)
\* a variant of getCollectionAdds that returns every child
getCollectionAddsUnfiltered(elems) == [i \in 1..Len(elems) |-> i]

getCollectionAdds(elems) == getChildrenOfType(elems, CollectionAdd_CATEGORY)
\* a variant of removeCollectionAdd that removes the named child whatever
\* its variant
removeCollectionAddAnyType(elems, name) == removeChild(elems, name)

removeCollectionAdd(elems, name) ==
    removeChildOfType(elems, CollectionAdd_CATEGORY, name)

\* a variant of addCollectionRemove that looks for a name conflict among
\* the CollectionRemove children only
addCollectionRemoveOwnNamespace(elems, name) ==
    LET own == SelectSeq(elems, LAMBDA e : e.category = CollectionRemove_CATEGORY)
        r == addChild(own, CollectionRemove_CATEGORY, name)
    IN  IF r.err # "none"
        THEN [err |-> r.err, elems |-> elems, ptr |-> NullPtr]
        ELSE [err |-> "none",
              elems |-> Append(elems, r.elems[Len(r.elems)]),
              ptr |-> Len(elems) + 1]

addCollectionRemove(elems, name) ==
    addChild(elems, CollectionRemove_CATEGORY, name)
getCollectionRemove(elems, name) ==
    getChildOfType(elems, CollectionRemove_CATEGORY, name)
getCollectionRemoves(elems) == getChildrenOfType(elems, CollectionRemove_CATEGORY)
\* a variant of removeCollectionRemove that takes out every
\* CollectionRemove once the named one is found
removeCollectionRemoveAll(elems, name) ==
    IF getChildOfType(elems, CollectionRemove_CATEGORY, name) # NullPtr
    THEN SelectSeq(elems, LAMBDA e : e.category # CollectionRemove_CATEGORY)
    ELSE elems

removeCollectionRemove(elems, name) ==
    removeChildOfType(elems, CollectionRemove_CATEGORY, name)

----------------------------------------------------------------------------
(* The state machine: one parent element and the calls made on it *)

\* the record of the most recent call: the operation, its arguments, the
\* error it raised, and what it returned (a pointer, a vector of pointers,
\* a value or a string); nGeomAttrs is the number of GeomAttr children the
\* parent had when the call was made; for a remove, which returns nothing,
\* ptr is the position the child it took out had (null when it took none)
Call(op, name, value, type, err, ptr, ptrs, result, str, n) ==
    [op |-> op, name |-> name, value |-> value, type |-> type, err |-> err,
     ptr |-> ptr, ptrs |-> ptrs, result |-> result, str |-> str,
     nGeomAttrs |-> n]

\* the names of the elements of a child sequence
childNames(elems) == {elems[i].name : i \in 1..Len(elems)}

NoCall == Call("none", EMPTY_STRING, NoValue, EMPTY_STRING, "none", NullPtr,
               <<>>, NoValue, EMPTY_STRING, 0)

\* an add: the error propagates to the caller and the child sequence is
\* what addChild left
AddCall(op, name, r) ==
    /\ Len(r.elems) <= MaxChildren
    /\ children' = r.elems
    /\ last' = Call(op, name, NoValue, EMPTY_STRING, r.err, r.ptr, <<>>,
                    NoValue, EMPTY_STRING, 0)
    /\ UNCHANGED <<parentClass, written, matchVars>>

GetCall(op, name, ptr) ==
    /\ last' = Call(op, name, NoValue, EMPTY_STRING, "none", ptr, <<>>,
                    NoValue, EMPTY_STRING, 0)
    /\ UNCHANGED <<parentClass, children, written, matchVars>>

EnumCall(op, ptrs) ==
    /\ last' = Call(op, EMPTY_STRING, NoValue, EMPTY_STRING, "none", NullPtr,
                    ptrs, NoValue, EMPTY_STRING, 0)
    /\ UNCHANGED <<parentClass, children, written, matchVars>>

RemoveCall(op, name, elems) ==
    /\ children' = elems
    /\ last' = Call(op, name, NoValue, EMPTY_STRING, "none",
                    IF Len(elems) < Len(children) THEN getChild(children, name)
                    ELSE NullPtr,
                    <<>>, NoValue, EMPTY_STRING, 0)
    /\ written' = [n \in DOMAIN written \cap childNames(elems) |-> written[n]]
    /\ UNCHANGED <<parentClass, matchVars>>

IsGeomInfo == parentClass = GeomInfo_CATEGORY
IsCollection == parentClass = Collection_CATEGORY

(* GeomInfo *)

AddGeomAttr(name) ==
    /\ IsGeomInfo
    /\ AddCall("addGeomAttr", name, addGeomAttr(children, name))

GetGeomAttr(name) ==
    /\ IsGeomInfo
    /\ GetCall("getGeomAttr", name, getGeomAttr(children, name))

GetGeomAttrs ==
    /\ IsGeomInfo
    /\ EnumCall("getGeomAttrs", getGeomAttrs(children))

RemoveGeomAttr(name) ==
    /\ IsGeomInfo
    /\ RemoveCall("removeGeomAttr", name, removeGeomAttr(children, name))

SetGeomAttrValue(name, value, type) ==
    /\ IsGeomInfo
    /\ LET r == setGeomAttrValue(children, name, value, type)
       IN  /\ Len(r.elems) <= MaxChildren
           /\ children' = r.elems
           /\ last' = Call("setGeomAttrValue", name, value, type, r.err, r.ptr,
                           <<>>, NoValue, EMPTY_STRING,
                           Len(getGeomAttrs(children)))
           /\ written' =
                 IF r.err # "none" THEN written
                 ELSE [n \in DOMAIN written \cup {r.elems[r.ptr].name} |->
                          IF n = r.elems[r.ptr].name THEN <<value, type>>
                          ELSE written[n]]
    /\ UNCHANGED <<parentClass, matchVars>>

\* Element::addChild<T> called on the GeomInfo with a T other than GeomAttr
AddOtherChild(name) ==
    /\ IsGeomInfo
    /\ AddCall("addChild", name, addChild(children, CollectionAdd_CATEGORY, name))

\* getValue<T> on the GeomAttr that getGeomAttr(name) returns
GeomAttrGetValue(name, type) ==
    /\ IsGeomInfo
    /\ getGeomAttr(children, name) # NullPtr
    /\ LET r == getValue(children[getGeomAttr(children, name)], type)
       IN  last' = Call("getValue", name, NoValue, type, r.err,
                        getGeomAttr(children, name), <<>>, r.value,
                        EMPTY_STRING, 0)
    /\ UNCHANGED <<parentClass, children, written, matchVars>>

(* Collection *)

AddCollectionAdd(name) ==
    /\ IsCollection
    /\ AddCall("addCollectionAdd", name, addCollectionAdd(children, name))

GetCollectionAdd(name) ==
    /\ IsCollection
    /\ GetCall("getCollectionAdd", name, getCollectionAdd(children, name))

GetCollectionAdds ==
    /\ IsCollection
    /\ EnumCall("getCollectionAdds", getCollectionAdds(children))

RemoveCollectionAdd(name) ==
    /\ IsCollection
    /\ RemoveCall("removeCollectionAdd", name, removeCollectionAdd(children, name))

AddCollectionRemove(name) ==
    /\ IsCollection
    /\ AddCall("addCollectionRemove", name, addCollectionRemove(children, name))

GetCollectionRemove(name) ==
    /\ IsCollection
    /\ GetCall("getCollectionRemove", name, getCollectionRemove(children, name))

GetCollectionRemoves ==
    /\ IsCollection
    /\ EnumCall("getCollectionRemoves", getCollectionRemoves(children))

RemoveCollectionRemove(name) ==
    /\ IsCollection
    /\ RemoveCall("removeCollectionRemove", name,
                  removeCollectionRemove(children, name))

(* GeomElement calls on a CollectionAdd / CollectionRemove child *)

SetCall(op, i, arg, elem) ==
    /\ children' = [children EXCEPT ![i] = elem]
    /\ last' = Call(op, children[i].name, NoValue, EMPTY_STRING, "none", i,
                    <<>>, NoValue, arg, 0)
    /\ UNCHANGED <<parentClass, written, matchVars>>

ReadCall(op, i, str) ==
    /\ last' = Call(op, children[i].name, NoValue, EMPTY_STRING, "none", i,
                    <<>>, NoValue, str, 0)
    /\ UNCHANGED <<parentClass, children, written, matchVars>>

SetGeom(i, name) ==
    /\ IsCollection
    /\ SetCall("setGeom", i, name, setGeom(children[i], name))

GetGeom(i) ==
    /\ IsCollection
    /\ ReadCall("getGeom", i, getGeom(children[i]))

SetCollection(i, name) ==
    /\ IsCollection
    /\ SetCall("setCollection", i, name, setCollection(children[i], name))

GetCollection(i) ==
    /\ IsCollection
    /\ ReadCall("getCollection", i, getCollection(children[i]))

Init ==
    /\ parentClass \in {GeomInfo_CATEGORY, Collection_CATEGORY}
    /\ children = <<>>
    /\ last = NoCall
    /\ written = <<>>
    /\ geom1 = <<>>
    /\ geom2 = <<>>
    /\ matchState = "idle"
    /\ matchResult = FALSE

Next ==
    \/ \E name \in NameArgs : AddGeomAttr(name)
    \/ \E name \in NameArgs : GetGeomAttr(name)
    \/ GetGeomAttrs
    \/ \E name \in NameArgs : RemoveGeomAttr(name)
    \/ \E name \in NameArgs, arg \in ValueArgs :
           SetGeomAttrValue(name, arg[1], arg[2])
    \/ \E name \in GeomInfoNames : AddOtherChild(name)
    \/ \E name \in NameArgs, type \in RequestedTypes : GeomAttrGetValue(name, type)
    \/ \E name \in NameArgs : AddCollectionAdd(name)
    \/ \E name \in NameArgs : GetCollectionAdd(name)
    \/ GetCollectionAdds
    \/ \E name \in NameArgs : RemoveCollectionAdd(name)
    \/ \E name \in NameArgs : AddCollectionRemove(name)
    \/ \E name \in NameArgs : GetCollectionRemove(name)
    \/ GetCollectionRemoves
    \/ \E name \in NameArgs : RemoveCollectionRemove(name)

Spec == Init /\ [][Next]_vars

\* a Collection whose rule elements are given geom and collection strings
NextGeomElement ==
    \/ AddCollectionAdd("rule1")
    \/ AddCollectionRemove("rule2")
    \/ \E i \in 1..Len(children), name \in GeomArgs : SetGeom(i, name)
    \/ \E i \in 1..Len(children) : GetGeom(i)
    \/ \E i \in 1..Len(children), name \in CollectionArgs : SetCollection(i, name)
    \/ \E i \in 1..Len(children) : GetCollection(i)

InitGeomElement == Init /\ IsCollection

SpecGeomElement == InitGeomElement /\ [][NextGeomElement]_vars


----------------------------------------------------------------------------
(* geomStringsMatch (declared Geom.h 279-285; design document 4.3) *)

\* the characters geom strings are built from: two geometry-name
\* characters, the separator, the universal geom name and a blank
GeomChars == {"a", "b", ",", "*", " "}
GeomStrings == UNION {[1..n -> GeomChars] : n \in 0..MaxGeomLen}

\* the pieces of a string between its separators, left to right
RECURSIVE splitString(_, _)
splitString(str, sep) ==
    IF \A i \in 1..Len(str) : str[i] # sep
    THEN <<str>>
    ELSE LET k == CHOOSE i \in 1..Len(str) :
                      str[i] = sep /\ \A j \in 1..(i - 1) : str[j] # sep
         IN  <<SubSeq(str, 1, k - 1)>>
                 \o splitString(SubSeq(str, k + 1, Len(str)), sep)

\* a string without the blanks around it
RECURSIVE trimSpaces(_)
trimSpaces(str) ==
    IF Len(str) = 0 THEN str
    ELSE IF str[1] = " " THEN trimSpaces(Tail(str))
    ELSE IF str[Len(str)] = " " THEN trimSpaces(SubSeq(str, 1, Len(str) - 1))
    ELSE str

\* the set of geom names a geom string lists: its trimmed tokens; an empty
\* token names no geometry
geomNames(geom) ==
    LET tokens == splitString(geom, ",")
    IN  {trimSpaces(tokens[i]) : i \in 1..Len(tokens)} \ {<<>>}

\* a variant of geomStringsMatch without the universal geom name
geomStringsMatchNamesOnly(g1, g2) == geomNames(g1) \cap geomNames(g2) # {}

\* a variant of geomStringsMatch in which the universal geom name matches
\* as one of the listed names too
geomStringsMatchUniversalToken(g1, g2) ==
    IF UNIVERSAL_GEOM_NAME \in geomNames(g1) \cup geomNames(g2)
    THEN TRUE
    ELSE geomNames(g1) \cap geomNames(g2) # {}

\* a variant of geomStringsMatch that takes an empty token for a geom name
geomStringsMatchKeepEmpty(g1, g2) ==
    LET names(g) == {trimSpaces(splitString(g, ",")[i]) :
                        i \in 1..Len(splitString(g, ","))}
    IN  IF g1 = UNIVERSAL_GEOM_NAME \/ g2 = UNIVERSAL_GEOM_NAME
        THEN TRUE
        ELSE names(g1) \cap names(g2) # {}

\* a variant of geomStringsMatch that takes the universal geom name in its
\* first argument only
geomStringsMatchFirstUniversal(g1, g2) ==
    IF g1 = UNIVERSAL_GEOM_NAME
    THEN TRUE
    ELSE geomNames(g1) \cap geomNames(g2) # {}

geomStringsMatch(g1, g2) ==
    IF g1 = UNIVERSAL_GEOM_NAME \/ g2 = UNIVERSAL_GEOM_NAME
    THEN TRUE
    ELSE geomNames(g1) \cap geomNames(g2) # {}

\* one call of geomStringsMatch on the two strings given
Match ==
    /\ matchState = "idle"
    /\ matchResult' = geomStringsMatch(geom1, geom2)
    /\ matchState' = "done"
    /\ UNCHANGED <<geom1, geom2, treeVars>>

InitMatch ==
    /\ parentClass = GeomInfo_CATEGORY
    /\ children = <<>>
    /\ last = NoCall
    /\ written = <<>>
    /\ geom1 \in GeomStrings
    /\ geom2 \in GeomStrings
    /\ matchState = "idle"
    /\ matchResult = FALSE

NextMatch == Match

SpecMatch == InitMatch /\ [][NextMatch]_vars

----------------------------------------------------------------------------
(* Properties *)

AddOps == {"addGeomAttr", "addCollectionAdd", "addCollectionRemove", "addChild"}

\* whether some element of the child sequence has the name
nameUsed(elems, name) == \E i \in 1..Len(elems) : elems[i].name = name

\* whether some element of the child sequence has the name and the variant
namedOfType(elems, category, name) ==
    \E i \in 1..Len(elems) :
        elems[i].name = name /\ elems[i].category = category

\* C1: after any sequence of typed adds (explicit or auto-named),
\* setGeomAttrValue calls and typed removes on a GeomInfo or Collection, no
\* two direct children of the parent have the same name.
ChildNamesUnique ==
    \A i, j \in 1..Len(children) :
        i # j => children[i].name # children[j].name

\* C1 witness: a successful addCollectionRemove has left a Collection with
\* at least two children, one of them a CollectionAdd
ChildNamesUniqueReached ==
    /\ last.op = "addCollectionRemove"
    /\ last.err = "none"
    /\ Len(children) >= 2
    /\ \E i \in 1..Len(children) : children[i].category = CollectionAdd_CATEGORY

\* C2: a typed add with a non-empty name already used by any child of the
\* parent, whatever that child's variant, fails with DuplicateName and
\* leaves the child sequence as it was.
DuplicateNameRejected ==
    [][(/\ last'.op \in AddOps
        /\ last'.name # EMPTY_STRING
        /\ nameUsed(children, last'.name))
       => (/\ last'.err = "DuplicateName"
           /\ last'.ptr = NullPtr
           /\ children' = children)]_vars

\* C2 witness: addCollectionRemove(n) has failed where n names a CollectionAdd
DuplicateNameRejectedReached ==
    /\ last.op = "addCollectionRemove"
    /\ last.err = "DuplicateName"
    /\ namedOfType(children, CollectionAdd_CATEGORY, last.name)

\* C3: a typed add with an empty name succeeds and appends a child whose
\* synthesized name no child of the parent had, whatever explicit-name adds,
\* auto-named adds and removes came before.
AutoNamedAddSucceeds ==
    [][(last'.op \in AddOps /\ last'.name = EMPTY_STRING)
       => (/\ last'.err = "none"
           /\ Len(children') = Len(children) + 1
           /\ SubSeq(children', 1, Len(children)) = children
           /\ last'.ptr = Len(children')
           /\ children'[Len(children')].name # EMPTY_STRING
           /\ ~nameUsed(children, children'[Len(children')].name))]_vars

\* C3 witness: an auto-named GeomAttr was added while a child named like
\* the first synthesized name was present, and got another name
AutoNamedAddSucceedsReached ==
    /\ last.op = "addGeomAttr"
    /\ last.name = EMPTY_STRING
    /\ last.err = "none"
    /\ nameUsed(children, "geomattr1")
    /\ children[last.ptr].name # "geomattr1"
    /\ Len(children) >= 2

RemoveOps == {"removeGeomAttr", "removeCollectionAdd", "removeCollectionRemove"}

\* the variant a typed remove, lookup or enumeration is about
OpCategory(op) ==
    IF op \in {"removeGeomAttr", "getGeomAttr", "getGeomAttrs"}
    THEN GeomAttr_CATEGORY
    ELSE IF op \in {"removeCollectionAdd", "getCollectionAdd", "getCollectionAdds"}
    THEN CollectionAdd_CATEGORY
    ELSE CollectionRemove_CATEGORY

\* C4: a typed remove called with a name no child has, or one that belongs
\* to a child of another variant, raises no error and leaves the child
\* sequence with its names, attributes and values unchanged.
DefensiveRemoveNoOp ==
    [][(/\ last'.op \in RemoveOps
        /\ ~namedOfType(children, OpCategory(last'.op), last'.name))
       => (last'.err = "none" /\ children' = children)]_vars

\* C4 witness: removeCollectionAdd(n) has returned where n names a
\* CollectionRemove, which is still there
DefensiveRemoveNoOpReached ==
    /\ last.op = "removeCollectionAdd"
    /\ namedOfType(children, CollectionRemove_CATEGORY, last.name)

\* the number of children of the variant
countOfType(elems, category) ==
    Cardinality({i \in 1..Len(elems) : elems[i].category = category})

\* whether the element a pointer designates stores the value, under the
\* given type string when there is one and under the value's own otherwise
holdsValue(elems, ptr, value, type) ==
    /\ ptr \in 1..Len(elems)
    /\ VALUE_ATTRIBUTE \in DOMAIN elems[ptr].attrs
    /\ TYPE_ATTRIBUTE \in DOMAIN elems[ptr].attrs
    /\ elems[ptr].attrs[VALUE_ATTRIBUTE] = toValueString(value)
    /\ elems[ptr].attrs[TYPE_ATTRIBUTE] =
           (IF type # EMPTY_STRING THEN type ELSE value.t)

\* a step that is the second of two consecutive setGeomAttrValue calls with
\* the same name
SecondSetOfSameName ==
    /\ last.op = "setGeomAttrValue"
    /\ last'.op = "setGeomAttrValue"
    /\ last'.name = last.name

\* C5 as stated: for every name, setGeomAttrValue(name, v1) and then
\* setGeomAttrValue(name, v2) update one GeomAttr: over the two calls the
\* number of GeomAttr children grows by at most one, and the child holds v2.
SetTwiceOneChildAnyName ==
    [][SecondSetOfSameName
       => (/\ countOfType(children', GeomAttr_CATEGORY) <= last.nGeomAttrs + 1
           /\ holdsValue(children', last'.ptr, last'.value, last'.type))]_vars

\* C5 amended: for every non-empty name, over the two calls the number of
\* GeomAttr children grows by at most one; and unless the name is held by a
\* child that is not a GeomAttr, the second call raises no error, adds no
\* child, returns the child the first call returned, and that child holds v2.
SetTwiceOneChild ==
    [][(SecondSetOfSameName /\ last'.name # EMPTY_STRING)
       => (/\ countOfType(children', GeomAttr_CATEGORY) <= last.nGeomAttrs + 1
           /\ (\A i \in 1..Len(children) :
                   children[i].name = last'.name
                       => children[i].category = GeomAttr_CATEGORY)
              => (/\ last'.err = "none"
                  /\ Len(children') = Len(children)
                  /\ last'.ptr = last.ptr
                  /\ children'[last'.ptr].name = last'.name
                  /\ holdsValue(children', last'.ptr, last'.value,
                                last'.type)))]_vars

\* C5 witness: setGeomAttrValue("rule1", true) was called on a GeomInfo whose
\* one child was the GeomAttr rule1, and has left that one child, holding true
SetTwiceOneChildReached ==
    /\ last.op = "setGeomAttrValue"
    /\ last.name = "rule1"
    /\ last.nGeomAttrs = 1
    /\ last.value = [t |-> "boolean", v |-> 1]
    /\ Len(children) = 1
    /\ "rule1" \in DOMAIN written
    /\ holdsValue(children, last.ptr, [t |-> "boolean", v |-> 1], EMPTY_STRING)

EnumOps == {"getGeomAttrs", "getCollectionAdds", "getCollectionRemoves"}

\* whether a vector of pointers holds exactly the elements of the variant,
\* each once, in child-sequence order
exactlyOfType(ptrs, elems, category) ==
    /\ \A k \in 1..Len(ptrs) :
           /\ ptrs[k] \in 1..Len(elems)
           /\ elems[ptrs[k]].category = category
    /\ \A i \in 1..Len(elems) :
           elems[i].category = category
               => Cardinality({k \in 1..Len(ptrs) : ptrs[k] = i}) = 1
    /\ \A k1, k2 \in 1..Len(ptrs) : k1 < k2 => ptrs[k1] < ptrs[k2]

\* whether a step keeps the child sequence in insertion order: it keeps
\* every child in its place, or appends one child, or takes one child out
keepsInsertionOrder(before, after) ==
    \/ /\ Len(after) = Len(before)
       /\ \A i \in 1..Len(before) :
              /\ after[i].name = before[i].name
              /\ after[i].category = before[i].category
    \/ /\ Len(after) = Len(before) + 1
       /\ SubSeq(after, 1, Len(before)) = before
    \/ /\ Len(after) = Len(before) - 1
       /\ \E i \in 1..Len(before) :
              after = SubSeq(before, 1, i - 1)
                          \o SubSeq(before, i + 1, Len(before))

\* C6: a typed enumeration returns exactly the parent's children of the
\* requested variant, each once, in the order they were inserted (the child
\* sequence is kept in insertion order by every call), and changes nothing;
\* so getCollectionAdds holds no CollectionRemove and getCollectionRemoves
\* no CollectionAdd.
EnumerationExact ==
    [][/\ keepsInsertionOrder(children, children')
       /\ last'.op \in EnumOps
          => (/\ children' = children
              /\ exactlyOfType(last'.ptrs, children', OpCategory(last'.op)))]_vars

\* C6 witness: getCollectionAdds has returned the first and the third child
\* of a Collection whose second child is a CollectionRemove
EnumerationExactReached ==
    /\ last.op = "getCollectionAdds"
    /\ last.ptrs = <<1, 3>>
    /\ Len(children) = 3
    /\ children[2].category = CollectionRemove_CATEGORY

\* C10: getValue on a GeomAttr on which no value has been set fails with
\* Unset; after a value v has been set with no type argument, getValue of
\* v's type returns a value equal to v.
ValueRoundTrip ==
    (last.op = "getValue" /\ last.ptr \in 1..Len(children))
    => LET name == children[last.ptr].name
       IN  /\ name \notin DOMAIN written
               => (last.err = "Unset" /\ last.result = NoValue)
           /\ (/\ name \in DOMAIN written
               /\ written[name][2] = EMPTY_STRING
               /\ last.type = written[name][1].t)
              => (last.err = "none" /\ last.result = written[name][1])

\* C10 witness: getValue<integer> has returned on a GeomAttr whose value was
\* set to the integer -12
ValueRoundTripReached ==
    /\ last.op = "getValue"
    /\ last.type = "integer"
    /\ last.result = [t |-> "integer", v |-> -12]
    /\ last.err = "none"

\* a further state C10 is about: getValue has failed with Unset on a
\* GeomAttr that was added and never assigned
UnsetReadReached ==
    /\ last.op = "getValue"
    /\ last.err = "Unset"
    /\ children[last.ptr].name \notin DOMAIN written

\* C7: geomStringsMatch returns true whenever geom1 or geom2, taken as a
\* whole string, is the universal geom name "*", whatever the other string
\* is, the empty string included.
UniversalMatchesAll ==
    (matchState = "done"
         /\ (geom1 = UNIVERSAL_GEOM_NAME \/ geom2 = UNIVERSAL_GEOM_NAME))
    => matchResult = TRUE

\* C7 witness: "*" was matched against the empty string
UniversalMatchesAllReached ==
    /\ matchState = "done"
    /\ geom1 = <<"*">>
    /\ geom2 = <<>>
    /\ matchResult = TRUE

\* whether t is a token of the geom string g: for some stretch of g that
\* holds no separator and is bounded by separators or the ends of g, t is
\* that stretch without the blanks around it, and is not empty
isTokenOf(t, g) ==
    \E a \in 1..(Len(g) + 1), b \in 0..Len(g) :
        /\ a <= b
        /\ \A i \in a..b : g[i] # ","
        /\ a = 1 \/ g[a - 1] = ","
        /\ b = Len(g) \/ g[b + 1] = ","
        /\ \E p \in a..b, q \in a..b :
               /\ p <= q
               /\ g[p] # " " /\ g[q] # " "
               /\ \A i \in a..(p - 1) : g[i] = " "
               /\ \A i \in (q + 1)..b : g[i] = " "
               /\ t = SubSeq(g, p, q)

\* whether two geom strings list a common token
shareToken(g1, g2) ==
    \E p \in 1..Len(g1), q \in 1..Len(g1) :
        /\ p <= q
        /\ isTokenOf(SubSeq(g1, p, q), g1)
        /\ isTokenOf(SubSeq(g1, p, q), g2)

NoCommonTokenReached ==
    /\ matchState = "done"
    /\ geom1 = <<"a", ",", "a">>
    /\ geom2 = <<"b", ",", "b">>
    /\ matchResult = FALSE

\* C9: an empty geom string denotes no geometries: geomStringsMatch("", g)
\* and geomStringsMatch(g, "") return false for every g that is not the
\* universal geom name, g = "" included.
EmptyMatchesNothing ==
    (/\ matchState = "done"
     /\ \/ geom1 = <<>> /\ geom2 # UNIVERSAL_GEOM_NAME
        \/ geom2 = <<>> /\ geom1 # UNIVERSAL_GEOM_NAME)
    => matchResult = FALSE

\* C9 witness: the empty string was matched against the empty string
EmptyMatchesNothingReached ==
    /\ matchState = "done"
    /\ geom1 = <<>>
    /\ geom2 = <<>>
    /\ matchResult = FALSE

\* whether every element has its type tag and its serialized value both set
\* or both unset
tagAndValueTogether(elems) ==
    \A i \in 1..Len(elems) :
        (TYPE_ATTRIBUTE \in DOMAIN elems[i].attrs)
            <=> (VALUE_ATTRIBUTE \in DOMAIN elems[i].attrs)

\* C11: in every reachable state each GeomAttr has its type tag and its
\* serialized value both set or both unset; a setGeomAttrValue that succeeds
\* replaces both together, and a non-empty type argument becomes the stored
\* type tag in place of the tag of the value's static type.
TagAndValueTogether ==
    [][/\ tagAndValueTogether(children')
       /\ (last'.op = "setGeomAttrValue" /\ last'.err = "none")
          => (/\ last'.ptr \in 1..Len(children')
              /\ children'[last'.ptr].attrs[VALUE_ATTRIBUTE]
                     = toValueString(last'.value)
              /\ children'[last'.ptr].attrs[TYPE_ATTRIBUTE]
                     = (IF last'.type # EMPTY_STRING THEN last'.type
                        ELSE getTypeString(last'.value)))]_vars

\* C11 witness: setGeomAttrValue with the integer -12 and the type argument
\* "float" was called on a GeomInfo that had a GeomAttr, and the GeomAttr it
\* returned stores "-12" tagged "float"
TagAndValueTogetherReached ==
    /\ last.op = "setGeomAttrValue"
    /\ last.err = "none"
    /\ last.type = "float"
    /\ last.nGeomAttrs >= 1
    /\ children[last.ptr].attrs[TYPE_ATTRIBUTE] = "float"
    /\ children[last.ptr].attrs[VALUE_ATTRIBUTE] = <<"-", "1", "2">>

GetOps == {"getGeomAttr", "getCollectionAdd", "getCollectionRemove"}

\* C12: a typed lookup returns the child with the given name exactly when
\* there is one and it is of the requested variant; when the name is absent
\* or belongs to a child of another variant it returns nothing; it raises
\* no error and changes nothing.
TypedLookupExact ==
    [][last'.op \in GetOps
       => (/\ children' = children
           /\ last'.err = "none"
           /\ IF namedOfType(children, OpCategory(last'.op), last'.name)
              THEN /\ last'.ptr \in 1..Len(children)
                   /\ children[last'.ptr].name = last'.name
                   /\ children[last'.ptr].category = OpCategory(last'.op)
              ELSE last'.ptr = NullPtr)]_vars

\* C12 witness: getCollectionAdd(n) has returned nothing where n names a
\* CollectionRemove
TypedLookupExactReached ==
    /\ last.op = "getCollectionAdd"
    /\ last.ptr = NullPtr
    /\ namedOfType(children, CollectionRemove_CATEGORY, last.name)

\* a further state C12 is about: getCollectionRemove has returned the second
\* child of a Collection whose first child is a CollectionAdd
TypedLookupFoundReached ==
    /\ last.op = "getCollectionRemove"
    /\ last.ptr = 2
    /\ children[1].category = CollectionAdd_CATEGORY

\* C13: a typed remove of a name held by a child of the matching variant
\* takes out exactly that child: afterwards no child has the name (so the
\* typed lookup of it returns nothing), and every other child is still
\* there, unchanged and in the same relative order.
TypedRemoveExact ==
    [][(/\ last'.op \in RemoveOps
        /\ namedOfType(children, OpCategory(last'.op), last'.name))
       => (/\ last'.err = "none"
           /\ ~nameUsed(children', last'.name)
           /\ getChildOfType(children', OpCategory(last'.op), last'.name)
                  = NullPtr
           /\ \E i \in 1..Len(children) :
                  /\ children[i].name = last'.name
                  /\ children' = SubSeq(children, 1, i - 1)
                                     \o SubSeq(children, i + 1, Len(children)))]_vars

\* C13 witness: removeCollectionAdd has taken out the first child of a
\* Collection, whose CollectionRemove is still there and no CollectionAdd is
TypedRemoveExactReached ==
    /\ last.op = "removeCollectionAdd"
    /\ last.ptr = 1
    /\ Len(children) >= 1
    /\ \A i \in 1..Len(children) :
           children[i].category = CollectionRemove_CATEGORY

\* what C14 says of one setGeomAttrValue(name, value, type) call that took
\* the child sequence from before to after and returned ptr
setsValueByName(before, after, name, value, type, ptr) ==
    /\ IF ~namedOfType(before, GeomAttr_CATEGORY, name)
       THEN \* appends exactly one new GeomAttr with that name and the value
            /\ Len(after) = Len(before) + 1
            /\ SubSeq(after, 1, Len(before)) = before
            /\ after[Len(after)].name = name
            /\ after[Len(after)].category = GeomAttr_CATEGORY
            /\ holdsValue(after, Len(after), value, type)
       ELSE \* adds no child, keeps the child's position, and only replaces
            \* its stored value and type tag
            /\ Len(after) = Len(before)
            /\ \E i \in 1..Len(before) :
                   /\ before[i].name = name
                   /\ after[i].name = name
                   /\ after[i].category = GeomAttr_CATEGORY
                   /\ holdsValue(after, i, value, type)
                   /\ \A a \in (DOMAIN before[i].attrs)
                                  \ {TYPE_ATTRIBUTE, VALUE_ATTRIBUTE} :
                          /\ a \in DOMAIN after[i].attrs
                          /\ after[i].attrs[a] = before[i].attrs[a]
                   /\ \A j \in 1..Len(before) : j # i => after[j] = before[j]
    \* the returned element is the one getGeomAttr(name) returns afterwards
    /\ ptr # NullPtr
    /\ ptr = getGeomAttr(after, name)

\* C14 as stated: for every name, setGeomAttrValue(name, v) appends one
\* GeomAttr with that name and value when the GeomInfo has no GeomAttr of
\* that name, updates the existing one in place otherwise, and returns the
\* GeomAttr that getGeomAttr(name) returns afterwards.
SetValueByNameAnyName ==
    [][last'.op = "setGeomAttrValue"
       => setsValueByName(children, children', last'.name, last'.value,
                          last'.type, last'.ptr)]_vars

\* C14 amended: the same, for every non-empty name that is not held by a
\* child that is not a GeomAttr.
SetValueByName ==
    [][(/\ last'.op = "setGeomAttrValue"
        /\ last'.name # EMPTY_STRING
        /\ \A i \in 1..Len(children) :
               children[i].name = last'.name
                   => children[i].category = GeomAttr_CATEGORY)
       => (/\ last'.err = "none"
           /\ setsValueByName(children, children', last'.name, last'.value,
                              last'.type, last'.ptr))]_vars

\* C14 witness: setGeomAttrValue("rule1", ...) was called on a GeomInfo with
\* two GeomAttrs, and has returned rule1, still its first child, before
\* another GeomAttr
SetValueByNameReached ==
    /\ last.op = "setGeomAttrValue"
    /\ last.name = "rule1"
    /\ last.err = "none"
    /\ last.nGeomAttrs = 2
    /\ last.ptr = 1
    /\ Len(children) = 2
    /\ children[1].name = "rule1"
    /\ children[2].category = GeomAttr_CATEGORY

\* a further state C14 is about: setGeomAttrValue has appended a GeomAttr to
\* a GeomInfo that had a child but no GeomAttr
SetValueByNameAppendedReached ==
    /\ last.op = "setGeomAttrValue"
    /\ last.name = "rule1"
    /\ last.err = "none"
    /\ last.nGeomAttrs = 0
    /\ last.ptr = 2

\* whether two elements agree on an attribute: both lack it, or both have
\* it with the same string
sameAttribute(e1, e2, attrib) ==
    /\ (attrib \in DOMAIN e1.attrs) <=> (attrib \in DOMAIN e2.attrs)
    /\ attrib \in DOMAIN e1.attrs => e1.attrs[attrib] = e2.attrs[attrib]

\* whether a step changes at most the given attribute of the child at
\* position i, and nothing else of the child sequence
changesOnly(before, after, i, attrib) ==
    /\ Len(after) = Len(before)
    /\ \A j \in 1..Len(before) : j # i => after[j] = before[j]
    /\ after[i].name = before[i].name
    /\ after[i].category = before[i].category
    /\ DOMAIN after[i].attrs \subseteq DOMAIN before[i].attrs \cup {attrib}
    /\ \A a \in DOMAIN before[i].attrs \ {attrib} :
           sameAttribute(before[i], after[i], a)

\* C15: on a GeomElement, getGeom returns the string given to the most
\* recent setGeom and getCollection the string given to the most recent
\* setCollection: a setGeom stores its string, whatever it is, and no other
\* call changes the stored geom string (likewise for the collection
\* string), and a get returns the stored string and changes nothing;
\* setGeom leaves the collection attribute, the element's name and the
\* parent's child sequence unchanged, and setCollection the geom attribute.
GeomAndCollectionStrings ==
    [][/\ last'.op = "setGeom"
          => (/\ last'.err = "none"
              /\ changesOnly(children, children', last'.ptr, GEOM_ATTRIBUTE)
              /\ getGeom(children'[last'.ptr]) = last'.str)
       /\ last'.op = "setCollection"
          => (/\ last'.err = "none"
              /\ changesOnly(children, children', last'.ptr, COLLECTION_ATTRIBUTE)
              /\ getCollection(children'[last'.ptr]) = last'.str)
       /\ last'.op # "setGeom"
          => \A i \in 1..Len(children) :
                 /\ i <= Len(children')
                 /\ sameAttribute(children[i], children'[i], GEOM_ATTRIBUTE)
       /\ last'.op # "setCollection"
          => \A i \in 1..Len(children) :
                 /\ i <= Len(children')
                 /\ sameAttribute(children[i], children'[i], COLLECTION_ATTRIBUTE)
       /\ last'.op \in {"getGeom", "getCollection"}
          => (/\ children' = children
              /\ last'.err = "none"
              /\ last'.str = IF last'.op = "getGeom"
                             THEN getGeom(children[last'.ptr])
                             ELSE getCollection(children[last'.ptr]))
       /\ (last.op = "setGeom" /\ last'.op = "getGeom" /\ last'.ptr = last.ptr)
          => last'.str = last.str
       /\ (/\ last.op = "setCollection" /\ last'.op = "getCollection"
           /\ last'.ptr = last.ptr)
          => last'.str = last.str]_vars

\* C15 witness: getGeom has returned "/robot1/arm" on the CollectionRemove
\* rule2, the second child after the CollectionAdd rule1, whose collection
\* string is "coll1" and whose geom string is "/robot1"
GeomAndCollectionStringsReached ==
    /\ last.op = "getGeom"
    /\ last.str = "/robot1/arm"
    /\ last.ptr = 2
    /\ children[2].name = "rule2"
    /\ children[2].category = CollectionRemove_CATEGORY
    /\ children[1].name = "rule1"
    /\ getGeom(children[1]) = "/robot1"
    /\ getCollection(children[1]) = "coll1"

\* C16: geomStringsMatch is symmetric: the result of matching geom1
\* against geom2 is the result of matching geom2 against geom1.
MatchSymmetric ==
    matchState = "done" => matchResult = geomStringsMatch(geom2, geom1)

\* C16 witness: "a" was matched against "b,a" and matched; the two strings
\* differ, so the call with the arguments exchanged is another call
MatchSymmetricReached ==
    /\ matchState = "done"
    /\ geom1 = <<"a">>
    /\ geom2 = <<"b", ",", "a">>
    /\ matchResult = TRUE

\* a further state C16 is about: the universal geom name as second argument
MatchSymmetricUniversalReached ==
    /\ matchState = "done"
    /\ geom1 = <<"a", ",", "b">>
    /\ geom2 = <<"*">>
    /\ matchResult = TRUE

\* whether some child that is not a GeomAttr holds the name
heldByOtherVariant(elems, name) ==
    \E i \in 1..Len(elems) :
        elems[i].name = name /\ elems[i].category # GeomAttr_CATEGORY

\* C17: setGeomAttrValue(name, v) called when name is held by a child that
\* is not a GeomAttr fails with DuplicateName and returns no element; the
\* child sequence, every child's attributes and the values written so far
\* are as they were before the call.
SetValueOnForeignNameFails ==
    [][(last'.op = "setGeomAttrValue" /\ heldByOtherVariant(children, last'.name))
       => (/\ last'.err = "DuplicateName"
           /\ last'.ptr = NullPtr
           /\ children' = children
           /\ written' = written)]_vars

\* C17 witness: setGeomAttrValue("rule1", v) has failed with DuplicateName
\* on a GeomInfo whose children are the GeomAttr geomattr1, which holds a
\* value, and the CollectionAdd rule1, which holds none
SetValueOnForeignNameFailsReached ==
    /\ last.op = "setGeomAttrValue"
    /\ last.name = "rule1"
    /\ last.err = "DuplicateName"
    /\ Len(children) = 2
    /\ namedOfType(children, GeomAttr_CATEGORY, "geomattr1")
    /\ namedOfType(children, CollectionAdd_CATEGORY, "rule1")
    /\ VALUE_ATTRIBUTE \in DOMAIN children[getChild(children, "geomattr1")].attrs
    /\ VALUE_ATTRIBUTE \notin DOMAIN children[getChild(children, "rule1")].attrs

====
